---- MODULE Spec2Model ----
(***************************************************************************)
(* Model of the adaptive voice-activity trimmer of hyprwhspr-rs            *)
(* (src/src/audio/vad.rs): settings resolution (FastVadSettings::          *)
(* from_config), the volatility controller (push_decision, adjust_profile, *)
(* set_profile) and the frame loop of FastVad::trim.                       *)
(*                                                                         *)
(* Audio is modelled by its length in samples.  A frame is named by its    *)
(* 1-based position in audio.chunks(frame_samples); its sample count is    *)
(* ChunkLen.  Buffers of samples (trimmed, active_segment) are sequences   *)
(* of frame positions, one entry per extend_from_slice(&frame).            *)
(* Thresholds and volatility are in hundredths (0.05 is 5).  The per-frame *)
(* classifier (earshot) is an opaque collaborator: each verdict is a       *)
(* nondeterministic choice between speech, non-speech and failure.         *)
(***************************************************************************)
EXTENDS Integers, Sequences, FiniteSets, TLC

VARIABLES
    config,            \* FastVadConfig waiting to be resolved (SpecCfg only)
    settings,          \* FastVad.settings
    sample_rate_hz,    \* FastVad.sample_rate_hz
    frame_samples,     \* FastVad.frame_samples
    current_profile,   \* FastVad.current_profile
    decision_history,  \* FastVad.decision_history
    profile_switches,  \* FastVad.profile_switches
    detector,          \* FastVad.detector: its profile and the frames fed since reset
    pc,                \* position: idle, loop (inside the frame loop), done, error
    audio_len,         \* audio.len() of the current trim call
    trimmed,           \* local trimmed
    active_segment,    \* local active_segment
    pre_roll,          \* local pre_roll
    pending_silence,   \* local pending_silence: <<[frame, appended]>>
    in_speech,         \* local in_speech
    silence_frames,    \* local silence_frames
    evaluated_frames,  \* local evaluated_frames
    segments,          \* local segments
    decisions,         \* what the classifier returned in this call, in order:
                       \* "speech", "silence" or "error"
    outcome,           \* FastVadOutcome returned by the call (NoOutcome: none)
    calls,             \* trim calls on a non-empty input made so far
    app                \* HyprwhsprApp::process_audio: its stage and what it did with the recording
                       \* (counted in SpecCalls only)

vars == <<config, settings, sample_rate_hz, frame_samples, current_profile,
          decision_history, profile_switches, detector, pc, audio_len, trimmed,
          active_segment, pre_roll, pending_silence, in_speech, silence_frames,
          evaluated_frames, segments, decisions, outcome, calls, app>>

instance_vars == <<current_profile, decision_history, profile_switches, detector>>

local_vars == <<trimmed, active_segment, pre_roll, pending_silence, in_speech,
                silence_frames, evaluated_frames, segments>>

----------------------------------------------------------------------------
(* Program constants *)

FRAME_MS == 30

SUPPORTED_SAMPLE_RATES == {8000, 16000, 32000, 48000}

\* 0.01, in hundredths
MIN_VOLATILITY_DELTA == 1

MAX_VOLATILITY_WINDOW == 480

\* f32::EPSILON on the hundredths grid: the smallest step above a threshold
F32_EPSILON == 1

----------------------------------------------------------------------------
(* Bounds of the model *)

\* longest input of a trim call, in frames
MaxFrames == 6

\* largest min_speech_ms / silence_timeout_ms drawn, in frames
MaxGateFrames == 2

\* largest pre_roll_ms / post_roll_ms drawn, in frames
MaxRollFrames == 2

\* largest volatility_window drawn
MaxWindow == 2

\* longest decision sequence fed to the controller alone
MaxDecisions == 6

----------------------------------------------------------------------------
(* Helpers *)

Min(a, b) == IF a < b THEN a ELSE b

Max(a, b) == IF a > b THEN a ELSE b

Clamp(x, lo, hi) == IF x < lo THEN lo ELSE IF x > hi THEN hi ELSE x

\* process_audio has not run
NoApp ==
    [stage |-> "idle",
     captured_len |-> 0,
     captured_rate |-> 0,
     samples_len |-> 0,
     result |-> "none",
     sent_len |-> 0,
     sent_rate |-> 0,
     sent_trimmed |-> FALSE,
     backend_len |-> 0]

NoOutcome == [ok |-> FALSE]

NoConfig == [enabled |-> FALSE]

NoSettings == [resolved |-> FALSE]

----------------------------------------------------------------------------
(* FastVadProfile *)

Profiles == {"Quality", "LowBitrate", "Aggressive", "VeryAggressive"}

None == "None"

rank(p) ==
    CASE p = "Quality" -> 0
      [] p = "LowBitrate" -> 1
      [] p = "Aggressive" -> 2
      [] p = "VeryAggressive" -> 3

more_aggressive(p) ==
    CASE p = "Quality" -> "LowBitrate"
      [] p = "LowBitrate" -> "Aggressive"
      [] p = "Aggressive" -> "VeryAggressive"
      [] p = "VeryAggressive" -> None

less_aggressive(p) ==
    CASE p = "Quality" -> None
      [] p = "LowBitrate" -> "Quality"
      [] p = "Aggressive" -> "LowBitrate"
      [] p = "VeryAggressive" -> "Aggressive"

----------------------------------------------------------------------------
(* FastVadSettings::from_config *)

\* variant: the division rounds down
ms_to_frames_floor(ms) == ms \div FRAME_MS

ms_to_frames(ms) == IF ms = 0 THEN 0 ELSE (ms + FRAME_MS - 1) \div FRAME_MS

\* variant: the thresholds are clamped into [0, 1] and not separated
from_config_clamp_only(cfg) ==
    LET silence_timeout_frames == Max(ms_to_frames(cfg.silence_timeout_ms), 1)
    IN  [base_profile |-> cfg.profile,
         min_speech_frames |-> Max(ms_to_frames(cfg.min_speech_ms), 1),
         silence_timeout_frames |-> silence_timeout_frames,
         pre_roll_frames |-> Min(ms_to_frames(cfg.pre_roll_ms), silence_timeout_frames),
         post_roll_frames |-> Min(ms_to_frames(cfg.post_roll_ms), silence_timeout_frames),
         volatility_window |-> Clamp(cfg.volatility_window, 2, MAX_VOLATILITY_WINDOW),
         volatility_increase_threshold |-> Clamp(cfg.volatility_increase_threshold, 0, 100),
         volatility_decrease_threshold |-> Clamp(cfg.volatility_decrease_threshold, 0, 100)]

from_config(cfg) ==
    LET min_speech_frames == Max(ms_to_frames(cfg.min_speech_ms), 1)
        silence_timeout_frames == Max(ms_to_frames(cfg.silence_timeout_ms), 1)
        pre_roll_frames == Min(ms_to_frames(cfg.pre_roll_ms), silence_timeout_frames)
        post_roll_frames == Min(ms_to_frames(cfg.post_roll_ms), silence_timeout_frames)
        volatility_window == Clamp(cfg.volatility_window, 2, MAX_VOLATILITY_WINDOW)
        increase0 == Clamp(cfg.volatility_increase_threshold, 0, 100)
        decrease0 == Clamp(cfg.volatility_decrease_threshold, 0, 100)
        adjusted_decrease1 == Min(decrease0, 100 - MIN_VOLATILITY_DELTA)
        adjusted_increase1 == Min(adjusted_decrease1 + MIN_VOLATILITY_DELTA, 100)
        again == adjusted_increase1 <= adjusted_decrease1
        adjusted_decrease ==
            IF again THEN Max(adjusted_decrease1 - MIN_VOLATILITY_DELTA, 0)
                     ELSE adjusted_decrease1
        adjusted_increase ==
            IF again THEN Min(adjusted_decrease + MIN_VOLATILITY_DELTA, 100)
                     ELSE adjusted_increase1
        sanitise == increase0 <= decrease0
    IN  [base_profile |-> cfg.profile,
         min_speech_frames |-> min_speech_frames,
         silence_timeout_frames |-> silence_timeout_frames,
         pre_roll_frames |-> pre_roll_frames,
         post_roll_frames |-> post_roll_frames,
         volatility_window |-> volatility_window,
         volatility_increase_threshold |->
             IF sanitise
             THEN Min(Max(adjusted_increase, adjusted_decrease + F32_EPSILON), 100)
             ELSE increase0,
         volatility_decrease_threshold |->
             IF sanitise THEN adjusted_decrease ELSE decrease0]

----------------------------------------------------------------------------
(* Sample rates and frames *)

supports_sample_rate(rate) == rate \in SUPPORTED_SAMPLE_RATES

FrameSamples(rate) == (rate * FRAME_MS + 999) \div 1000

\* number of chunks of audio.chunks(frame_samples)
NumChunks(len, fs) == (len + fs - 1) \div fs

\* variant: the output takes the zero-padded frame the classifier sees
ChunkLen_padded(i, len, fs) == fs

\* sample count of the i-th chunk: only the last one can be short
ChunkLen(i, len, fs) == IF i * fs <= len THEN fs ELSE len - (i - 1) * fs

RECURSIVE SampleLen(_, _, _)
\* Vec::len() of a buffer built from the given frames
SampleLen(frames, len, fs) ==
    IF frames = <<>> THEN 0
    ELSE ChunkLen(Head(frames), len, fs) + SampleLen(Tail(frames), len, fs)

----------------------------------------------------------------------------
(* Volatility controller.  self is the record of the instance fields. *)

Self == [current_profile |-> current_profile,
         decision_history |-> decision_history,
         profile_switches |-> profile_switches,
         detector |-> detector]

\* a detector just built and reset: no frame fed yet
NewDetector(profile) == [profile |-> profile, frames |-> 0, pcm_len |-> 0]

with_settings(s) ==
    [current_profile |-> s.base_profile,
     decision_history |-> <<>>,
     profile_switches |-> 0,
     detector |-> NewDetector(s.base_profile)]

Transitions(h) == Cardinality({i \in 1..(Len(h) - 1) : h[i] # h[i + 1]})

\* variant: the transitions are divided by the history length
volatility_of_per_entry(hist) ==
    IF Len(hist) < 2 THEN [num |-> 0, den |-> 1]
    ELSE [num |-> Transitions(hist), den |-> Len(hist)]

\* volatility of a history, as push_decision computes it
volatility_of(hist) ==
    IF Len(hist) < 2 THEN [num |-> 0, den |-> 1]
    ELSE [num |-> Transitions(hist), den |-> Len(hist) - 1]

\* variant: a full history drops the decision just pushed instead of the oldest
push_decision_newest_evicted(self, decision) ==
    LET pushed == Append(self.decision_history, decision)
        hist == IF Len(pushed) > settings.volatility_window
                THEN SubSeq(pushed, 1, settings.volatility_window)
                ELSE pushed
    IN  [self |-> [self EXCEPT !.decision_history = hist],
         volatility |-> volatility_of(hist)]

\* push_decision: the new history and the volatility as a fraction num/den
push_decision(self, decision) ==
    LET pushed == Append(self.decision_history, decision)
        hist == IF Len(pushed) > settings.volatility_window THEN Tail(pushed) ELSE pushed
    IN  [self |-> [self EXCEPT !.decision_history = hist],
         volatility |-> volatility_of(hist)]

\* volatility > threshold and volatility < threshold, threshold in hundredths
Above(v, threshold) == v.num * 100 > threshold * v.den

Below(v, threshold) == v.num * 100 < threshold * v.den

\* variant: a switch keeps the classifier's state and the decision history
set_profile_keep_state(self, profile) ==
    IF profile = self.current_profile THEN self
    ELSE [self EXCEPT !.current_profile = profile,
                      !.profile_switches = @ + 1]

set_profile(self, profile) ==
    IF profile = self.current_profile THEN self
    ELSE [current_profile |-> profile,
          decision_history |-> <<>>,
          profile_switches |-> self.profile_switches + 1,
          detector |-> NewDetector(profile)]

\* variant: de-escalation without the base-profile floor
adjust_profile_no_floor(self, volatility) ==
    IF Above(volatility, settings.volatility_increase_threshold)
    THEN IF more_aggressive(self.current_profile) # None
         THEN set_profile(self, more_aggressive(self.current_profile))
         ELSE self
    ELSE IF Below(volatility, settings.volatility_decrease_threshold)
    THEN IF less_aggressive(self.current_profile) # None
         THEN set_profile(self, less_aggressive(self.current_profile))
         ELSE self
    ELSE self

adjust_profile(self, volatility) ==
    IF Above(volatility, settings.volatility_increase_threshold)
    THEN IF more_aggressive(self.current_profile) # None
         THEN set_profile(self, more_aggressive(self.current_profile))
         ELSE self
    ELSE IF Below(volatility, settings.volatility_decrease_threshold)
    THEN IF /\ less_aggressive(self.current_profile) # None
            /\ rank(less_aggressive(self.current_profile)) >= rank(settings.base_profile)
         THEN set_profile(self, less_aggressive(self.current_profile))
         ELSE self
    ELSE self

\* push_decision followed by adjust_profile, as trim does for every frame
Observe(self, decision) ==
    LET pushed == push_decision(self, decision)
    IN  adjust_profile(pushed.self, pushed.volatility)

----------------------------------------------------------------------------
(* FastVad::trim: buffers *)

Locals == [trimmed |-> trimmed,
           active_segment |-> active_segment,
           pre_roll |-> pre_roll,
           pending_silence |-> pending_silence,
           in_speech |-> in_speech,
           silence_frames |-> silence_frames,
           segments |-> segments]

InitLocals == [trimmed |-> <<>>,
               active_segment |-> <<>>,
               pre_roll |-> <<>>,
               pending_silence |-> <<>>,
               in_speech |-> FALSE,
               silence_frames |-> 0,
               segments |-> 0]

min_speech_samples == settings.min_speech_frames * frame_samples

\* variant: the pre-roll buffer never evicts
push_pre_roll_unbounded(buf, frame) ==
    IF settings.pre_roll_frames = 0 THEN buf ELSE Append(buf, frame)

push_pre_roll(buf, frame) ==
    IF settings.pre_roll_frames = 0 THEN buf
    ELSE Append(IF Len(buf) = settings.pre_roll_frames THEN Tail(buf) ELSE buf, frame)

\* flush_pre_roll: the whole buffer goes to the segment, oldest first
flush_pre_roll(buf, segment) == segment \o buf

\* variant: the pre-roll buffer is left empty when a segment closes
reseed_pre_roll_clear(pending) == <<>>

\* variant: the pre-roll buffer is refilled with the oldest trailing frames
reseed_pre_roll_oldest(pending) ==
    IF settings.pre_roll_frames = 0 \/ pending = <<>> THEN <<>>
    ELSE LET count == Min(Len(pending), settings.pre_roll_frames)
         IN  [i \in 1..count |-> pending[i].frame]

reseed_pre_roll(pending) ==
    IF settings.pre_roll_frames = 0 \/ pending = <<>> THEN <<>>
    ELSE LET count == Min(Len(pending), settings.pre_roll_frames)
             skip == Len(pending) - count
         IN  [i \in 1..count |-> pending[skip + i].frame]

\* variant: the silence held back is dropped when speech resumes
drain_pending_drop(pending, segment) == segment

\* variant: every buffered silence frame joins the segment, appended or not
drain_pending_all(pending, segment) ==
    segment \o [i \in 1..Len(pending) |-> pending[i].frame]

\* pending_silence.drain(..): the frames not yet appended join the segment
drain_pending(pending, segment) ==
    LET rest == SelectSeq(pending, LAMBDA e : ~e.appended)
    IN  segment \o [i \in 1..Len(rest) |-> rest[i].frame]

\* the minimum-length test guarding both commits
commits(segment) ==
    /\ segment # <<>>
    /\ SampleLen(segment, audio_len, frame_samples) >= min_speech_samples

\* variant: the post-roll comparison is strict
appended_now_strict(run) == run < settings.post_roll_frames

\* variant: the frames appended are the last post_roll_frames before the timeout
appended_now_latest(run) == run > settings.silence_timeout_frames - settings.post_roll_frames

\* a silence frame is appended at once while the run is within the post-roll
appended_now(run) == run <= settings.post_roll_frames

\* body of the frame loop after the controller ran (vad.rs 250-305)
process_frame(loc, frame, is_speech) ==
    IF ~loc.in_speech
    THEN IF is_speech
         THEN [loc EXCEPT
                 !.in_speech = TRUE,
                 !.pre_roll = <<>>,
                 !.pending_silence = <<>>,
                 !.active_segment =
                     Append(drain_pending(loc.pending_silence,
                                          flush_pre_roll(loc.pre_roll, loc.active_segment)),
                            frame),
                 !.silence_frames = 0]
         ELSE [loc EXCEPT !.pre_roll = push_pre_roll(loc.pre_roll, frame)]
    ELSE IF is_speech
    THEN [loc EXCEPT
            !.pending_silence = <<>>,
            !.active_segment =
                Append(drain_pending(loc.pending_silence, loc.active_segment), frame),
            !.silence_frames = 0]
    ELSE LET run == loc.silence_frames + 1
             appended == appended_now(run)
             segment == IF appended THEN Append(loc.active_segment, frame)
                        ELSE loc.active_segment
             pending == Append(loc.pending_silence,
                               [frame |-> frame, appended |-> appended])
         IN  IF run >= settings.silence_timeout_frames
             THEN [loc EXCEPT
                     !.trimmed = IF commits(segment) THEN loc.trimmed \o segment
                                 ELSE loc.trimmed,
                     !.segments = IF commits(segment) THEN loc.segments + 1
                                  ELSE loc.segments,
                     !.active_segment = <<>>,
                     !.pre_roll = reseed_pre_roll(pending),
                     !.pending_silence = <<>>,
                     !.in_speech = FALSE,
                     !.silence_frames = 0]
             ELSE [loc EXCEPT
                     !.silence_frames = run,
                     !.active_segment = segment,
                     !.pending_silence = pending]

\* variant: the segment open at the end of the input is counted even when
\* it is too short to be appended
final_flush_counts_rejected(loc) ==
    IF loc.in_speech
    THEN LET segment == drain_pending(loc.pending_silence, loc.active_segment)
         IN  [loc EXCEPT
                 !.pending_silence = <<>>,
                 !.active_segment = segment,
                 !.trimmed = IF commits(segment) THEN loc.trimmed \o segment
                             ELSE loc.trimmed,
                 !.segments = loc.segments + 1]
    ELSE loc

\* after the loop (vad.rs 308-320)
final_flush(loc) ==
    IF loc.in_speech
    THEN LET segment == drain_pending(loc.pending_silence, loc.active_segment)
         IN  [loc EXCEPT
                 !.pending_silence = <<>>,
                 !.active_segment = segment,
                 !.trimmed = IF commits(segment) THEN loc.trimmed \o segment
                             ELSE loc.trimmed,
                 !.segments = IF commits(segment) THEN loc.segments + 1
                              ELSE loc.segments]
    ELSE loc

\* variant: the operands of saturating_sub are swapped
dropped_samples_swapped(len, trimmed_len) ==
    IF len > trimmed_len THEN 0 ELSE trimmed_len - len

\* audio.len().saturating_sub(trimmed.len())
dropped_samples(len, trimmed_len) == IF trimmed_len > len THEN 0 ELSE len - trimmed_len

\* variant: the frame goes to the classifier as it is, without padding
convert_frame_unpadded(len, target_len) == len

\* convert_frame: the length of the i16 frame made from a frame of len
\* samples, padded with zeros up to target_len (vad.rs 441-452)
convert_frame(len, target_len) == IF len < target_len THEN target_len ELSE len

\* the verdicts predict_frame can return for a frame
predict_frame(rate) ==
    IF rate \in {8000, 16000, 32000, 48000}
    THEN {"speech", "silence", "error"}
    ELSE {"error"}

----------------------------------------------------------------------------
(* FastVad::trim: steps *)

SetLocals(loc) ==
    /\ trimmed' = loc.trimmed
    /\ active_segment' = loc.active_segment
    /\ pre_roll' = loc.pre_roll
    /\ pending_silence' = loc.pending_silence
    /\ in_speech' = loc.in_speech
    /\ silence_frames' = loc.silence_frames
    /\ segments' = loc.segments

SetSelf(self) ==
    /\ current_profile' = self.current_profile
    /\ decision_history' = self.decision_history
    /\ profile_switches' = self.profile_switches
    /\ detector' = self.detector

\* variant: the controller state is not reset at the start of a call
TrimBegin_no_reset(len) ==
    /\ pc \in {"idle", "done", "error"}
    /\ audio_len' = len
    /\ decisions' = <<>>
    /\ evaluated_frames' = 0
    /\ SetLocals(InitLocals)
    /\ IF len = 0
       THEN /\ outcome' = [ok |-> TRUE,
                           trimmed_audio |-> <<>>,
                           trimmed_len |-> 0,
                           segments |-> 0,
                           evaluated_frames |-> 0,
                           profile_switches |-> 0,
                           final_profile |-> settings.base_profile,
                           dropped_samples |-> 0]
            /\ pc' = "done"
       ELSE /\ outcome' = NoOutcome
            /\ pc' = "loop"
    /\ UNCHANGED instance_vars
    /\ UNCHANGED <<config, settings, sample_rate_hz, frame_samples>>

\* variant: the empty outcome reports the profile the last call ended with
TrimBegin_stale_profile(len) ==
    /\ pc \in {"idle", "done", "error"}
    /\ audio_len' = len
    /\ decisions' = <<>>
    /\ evaluated_frames' = 0
    /\ SetLocals(InitLocals)
    /\ IF len = 0
       THEN /\ outcome' = [ok |-> TRUE,
                           trimmed_audio |-> <<>>,
                           trimmed_len |-> 0,
                           segments |-> 0,
                           evaluated_frames |-> 0,
                           profile_switches |-> profile_switches,
                           final_profile |-> current_profile,
                           dropped_samples |-> 0]
            /\ pc' = "done"
            /\ UNCHANGED instance_vars
       ELSE /\ outcome' = NoOutcome
            /\ pc' = "loop"
            /\ SetSelf(with_settings(settings))
    /\ UNCHANGED <<config, settings, sample_rate_hz, frame_samples>>

\* entry of trim(audio) up to the loop (vad.rs 214-240)
TrimBegin(len) ==
    /\ pc \in {"idle", "done", "error"}
    /\ audio_len' = len
    /\ decisions' = <<>>
    /\ evaluated_frames' = 0
    /\ SetLocals(InitLocals)
    /\ IF len = 0
       THEN /\ outcome' = [ok |-> TRUE,
                           trimmed_audio |-> <<>>,
                           trimmed_len |-> 0,
                           segments |-> 0,
                           evaluated_frames |-> 0,
                           profile_switches |-> 0,
                           final_profile |-> settings.base_profile,
                           dropped_samples |-> 0]
            /\ pc' = "done"
            /\ UNCHANGED instance_vars
       ELSE /\ outcome' = NoOutcome
            /\ pc' = "loop"
            /\ SetSelf(with_settings(settings))
    /\ UNCHANGED <<config, settings, sample_rate_hz, frame_samples>>

\* one iteration of the loop (vad.rs 242-306) on a frame taken as speech or not;
\* verdict is what the classifier returned for it
FrameStep(is_speech, verdict) ==
    /\ pc = "loop"
    /\ evaluated_frames < NumChunks(audio_len, frame_samples)
    /\ verdict \in predict_frame(sample_rate_hz)
    /\ LET pcm_frame == convert_frame(ChunkLen(evaluated_frames + 1, audio_len, frame_samples),
                                      frame_samples)
           fed == [Self EXCEPT !.detector.frames = @ + 1, !.detector.pcm_len = pcm_frame]
       IN  SetSelf(Observe(fed, is_speech))
    /\ evaluated_frames' = evaluated_frames + 1
    /\ SetLocals(process_frame(Locals, evaluated_frames + 1, is_speech))
    /\ decisions' = Append(decisions, verdict)
    /\ UNCHANGED <<config, settings, sample_rate_hz, frame_samples, pc, audio_len, outcome,
                   calls, app>>

\* the classifier returned Ok(is_speech)
TrimFrame(is_speech) == FrameStep(is_speech, IF is_speech THEN "speech" ELSE "silence")

\* variant: a failed frame is taken as non-speech and the loop goes on
TrimClassifyFail_as_silence == FrameStep(FALSE, "error")

\* the classifier returned Err: the ? operator returns it from trim at once (vad.rs 245)
TrimClassifyFail ==
    /\ pc = "loop"
    /\ evaluated_frames < NumChunks(audio_len, frame_samples)
    /\ "error" \in predict_frame(sample_rate_hz)
    /\ pc' = "error"
    /\ decisions' = Append(decisions, "error")
    /\ UNCHANGED <<config, settings, sample_rate_hz, frame_samples, instance_vars,
                   audio_len, local_vars, outcome, calls, app>>

\* end of the loop: final flush and the outcome (vad.rs 308-331)
TrimFinish ==
    /\ pc = "loop"
    /\ evaluated_frames = NumChunks(audio_len, frame_samples)
    /\ LET loc == final_flush(Locals)
           trimmed_len == SampleLen(loc.trimmed, audio_len, frame_samples)
       IN  /\ SetLocals(loc)
           /\ outcome' = [ok |-> TRUE,
                          trimmed_audio |-> loc.trimmed,
                          trimmed_len |-> trimmed_len,
                          segments |-> loc.segments,
                          evaluated_frames |-> evaluated_frames,
                          profile_switches |-> profile_switches,
                          final_profile |-> current_profile,
                          dropped_samples |-> dropped_samples(audio_len, trimmed_len)]
    /\ pc' = "done"
    /\ UNCHANGED <<config, settings, sample_rate_hz, frame_samples, instance_vars,
                   audio_len, evaluated_frames, decisions, calls, app>>

----------------------------------------------------------------------------
(* Spec: one trimmer built from a configuration, trimming bounded inputs *)

\* millisecond values that resolve to 1..k frames, none a multiple of FRAME_MS
GateMs(k) == {0} \cup {FRAME_MS * j - 10 : j \in 1..k}

\* millisecond values that resolve to 0..k frames
RollMs(k) == {0} \cup {FRAME_MS * j - 10 : j \in 1..k}

\* configured (increase, decrease) thresholds, in hundredths
TrimThresholds == {<<5, 0>>, <<60, 40>>}

TrimConfigs ==
    {[enabled |-> TRUE,
      profile |-> p,
      min_speech_ms |-> ms,
      silence_timeout_ms |-> st,
      pre_roll_ms |-> pre,
      post_roll_ms |-> post,
      volatility_window |-> w,
      volatility_increase_threshold |-> t[1],
      volatility_decrease_threshold |-> t[2]] :
        p \in Profiles, ms \in GateMs(MaxGateFrames), st \in GateMs(MaxGateFrames),
        pre \in RollMs(MaxRollFrames), post \in RollMs(MaxRollFrames),
        w \in 2..MaxWindow, t \in TrimThresholds}

\* rates a trimmer is built with: one supported, one not (with_settings does not validate)
TrimRates == {16000, 44100}

\* input lengths: empty, whole frames, and one sample past a whole frame
AudioLens(fs) ==
    {0} \cup {k * fs : k \in 1..MaxFrames} \cup {(k - 1) * fs + 1 : k \in 1..MaxFrames}

\* FastVad::with_settings(FastVadSettings::from_config(&cfg), rate)
Built(cfg, rate) ==
    /\ config = NoConfig
    /\ settings = from_config(cfg)
    /\ sample_rate_hz = rate
    /\ frame_samples = FrameSamples(rate)
    /\ current_profile = with_settings(from_config(cfg)).current_profile
    /\ decision_history = with_settings(from_config(cfg)).decision_history
    /\ profile_switches = with_settings(from_config(cfg)).profile_switches
    /\ detector = with_settings(from_config(cfg)).detector
    /\ pc = "idle"
    /\ audio_len = 0
    /\ trimmed = <<>>
    /\ active_segment = <<>>
    /\ pre_roll = <<>>
    /\ pending_silence = <<>>
    /\ in_speech = FALSE
    /\ silence_frames = 0
    /\ evaluated_frames = 0
    /\ segments = 0
    /\ decisions = <<>>
    /\ outcome = NoOutcome
    /\ calls = 0
    /\ app = NoApp

Init == \E cfg \in TrimConfigs, rate \in TrimRates : Built(cfg, rate)

TrimCall == \E len \in AudioLens(frame_samples) : TrimBegin(len) /\ UNCHANGED <<calls, app>>

TrimStep == \E is_speech \in BOOLEAN : TrimFrame(is_speech)

Next ==
    \/ TrimCall
    \/ TrimStep
    \/ TrimClassifyFail
    \/ TrimFinish

Spec == Init /\ [][Next]_vars

----------------------------------------------------------------------------
(* SpecCalls: consecutive trim calls on one trimmer, counted *)

\* trim calls on a non-empty input made on one trimmer
MaxCalls == 2

\* longest input of a counted call, in frames
MaxCallFrames == 4

CallConfigs ==
    {[enabled |-> TRUE,
      profile |-> p,
      min_speech_ms |-> ms,
      silence_timeout_ms |-> st,
      pre_roll_ms |-> pre,
      post_roll_ms |-> post,
      volatility_window |-> w,
      volatility_increase_threshold |-> t[1],
      volatility_decrease_threshold |-> t[2]] :
        p \in Profiles, ms \in GateMs(MaxGateFrames), st \in GateMs(MaxGateFrames),
        pre \in RollMs(1), post \in RollMs(1),
        w \in 2..MaxWindow, t \in TrimThresholds}

CallLens(fs) ==
    {0} \cup {k * fs : k \in 1..MaxCallFrames} \cup {(k - 1) * fs + 1 : k \in 1..MaxCallFrames}

CallsInit == \E cfg \in CallConfigs : Built(cfg, 16000)

CountedCall ==
    \E len \in CallLens(frame_samples) :
        /\ len = 0 \/ calls < MaxCalls
        /\ TrimBegin(len)
        /\ calls' = IF len = 0 THEN calls ELSE calls + 1
        /\ UNCHANGED app

CallsNext ==
    \/ CountedCall
    \/ TrimStep
    \/ TrimClassifyFail
    \/ TrimFinish

SpecCalls == CallsInit /\ [][CallsNext]_vars

----------------------------------------------------------------------------
(* SpecCtl: the controller alone, fed decisions one by one as in the unit   *)
(* test volatility_triggers_profile_adjustment (vad.rs 594-603)             *)

\* largest volatility_window drawn for the controller alone
MaxCtlWindow == 4

\* configured threshold values, in hundredths, inside and outside [0, 1]
ThresholdValues == {-50, 0, 5, 40, 60, 99, 100, 150}

CtlConfigs ==
    {[enabled |-> TRUE,
      profile |-> p,
      min_speech_ms |-> 90,
      silence_timeout_ms |-> 400,
      pre_roll_ms |-> 90,
      post_roll_ms |-> 150,
      volatility_window |-> w,
      volatility_increase_threshold |-> inc,
      volatility_decrease_threshold |-> dec] :
        p \in Profiles, w \in 1..MaxCtlWindow,
        inc \in ThresholdValues, dec \in ThresholdValues}

CtlInit ==
    \E cfg \in CtlConfigs :
        /\ Built(cfg, 16000)

\* vad.push_decision(decision) then vad.adjust_profile(volatility)
CtlFeed ==
    \E decision \in BOOLEAN :
        /\ pc = "idle"
        /\ Len(decisions) < MaxDecisions
        /\ SetSelf(Observe(Self, decision))
        /\ decisions' = Append(decisions, IF decision THEN "speech" ELSE "silence")
        /\ UNCHANGED <<config, settings, sample_rate_hz, frame_samples, pc, audio_len,
                       local_vars, outcome, calls, app>>

CtlNext == CtlFeed

SpecCtl == CtlInit /\ [][CtlNext]_vars

----------------------------------------------------------------------------
(* SpecCfg: FastVad::maybe_new on a configuration and a sample rate *)

CfgConfigs ==
    {[enabled |-> en,
      profile |-> p,
      min_speech_ms |-> ms,
      silence_timeout_ms |-> st,
      pre_roll_ms |-> pre,
      post_roll_ms |-> post,
      volatility_window |-> w,
      volatility_increase_threshold |-> inc,
      volatility_decrease_threshold |-> dec] :
        en \in BOOLEAN, p \in {"Quality", "VeryAggressive"},
        ms \in {0, 20, 90}, st \in {0, 100, 400},
        pre \in {0, 90, 500}, post \in {0, 150, 500},
        w \in {0, 6, 500},
        inc \in ThresholdValues, dec \in ThresholdValues}

CfgRates == {16000, 44100}

CfgInit ==
    /\ config \in CfgConfigs
    /\ settings = NoSettings
    /\ sample_rate_hz = 0
    /\ frame_samples = 0
    /\ current_profile = None
    /\ decision_history = <<>>
    /\ profile_switches = 0
    /\ detector = NewDetector(None)
    /\ pc = "config"
    /\ audio_len = 0
    /\ trimmed = <<>>
    /\ active_segment = <<>>
    /\ pre_roll = <<>>
    /\ pending_silence = <<>>
    /\ in_speech = FALSE
    /\ silence_frames = 0
    /\ evaluated_frames = 0
    /\ segments = 0
    /\ decisions = <<>>
    /\ outcome = NoOutcome
    /\ calls = 0
    /\ app = NoApp

\* FastVad::maybe_new(&config, sample_rate_hz) (vad.rs 157-165)
maybe_new(rate) ==
    /\ pc = "config"
    /\ IF ~config.enabled
       THEN /\ pc' = "disabled"
            /\ UNCHANGED <<settings, sample_rate_hz, frame_samples, instance_vars>>
       ELSE IF ~supports_sample_rate(rate)
       THEN /\ pc' = "rejected"
            /\ UNCHANGED <<settings, sample_rate_hz, frame_samples, instance_vars>>
       ELSE /\ pc' = "idle"
            /\ settings' = from_config(config)
            /\ sample_rate_hz' = rate
            /\ frame_samples' = FrameSamples(rate)
            /\ SetSelf(with_settings(from_config(config)))
    /\ UNCHANGED <<config, audio_len, local_vars, decisions, outcome, calls, app>>

MaybeNew == \E rate \in CfgRates : maybe_new(rate)

\* rates handed to set_sample_rate
SetRates == {8000, 16000, 44100}

\* variant: the rate is stored without validate_sample_rate
set_sample_rate_unchecked(rate) ==
    /\ pc \in {"idle", "done", "error"}
    /\ sample_rate_hz' = rate
    /\ frame_samples' = FrameSamples(rate)
    /\ UNCHANGED <<config, settings, instance_vars, pc, audio_len, local_vars, decisions,
                   outcome, calls, app>>

\* FastVad::set_sample_rate(rate) (vad.rs 191-196): an unsupported rate is
\* refused by validate_sample_rate before any field is written; &mut self
\* keeps it from running while trim does
set_sample_rate(rate) ==
    /\ pc \in {"idle", "done", "error"}
    /\ IF supports_sample_rate(rate)
       THEN /\ sample_rate_hz' = rate
            /\ frame_samples' = FrameSamples(rate)
       ELSE UNCHANGED <<sample_rate_hz, frame_samples>>
    /\ UNCHANGED <<config, settings, instance_vars, pc, audio_len, local_vars, decisions,
                   outcome, calls, app>>

SetSampleRate == \E rate \in SetRates : set_sample_rate(rate)

CfgNext == MaybeNew \/ SetSampleRate

SpecCfg == CfgInit /\ [][CfgNext]_vars

----------------------------------------------------------------------------
(* SpecE2E: the end-to-end scenario, 300 ms silence + 600 ms speech +       *)
(* 700 ms silence at 16 kHz, the classifier marking exactly the speech      *)

ScenarioRate == 16000

ScenarioSilenceBefore == (ScenarioRate * 300) \div 1000

ScenarioSpeech == (ScenarioRate * 600) \div 1000

ScenarioSilenceAfter == (ScenarioRate * 700) \div 1000

ScenarioLen == ScenarioSilenceBefore + ScenarioSpeech + ScenarioSilenceAfter

\* the frame holds a sample of the speech part
ScenarioIsSpeech(frame, fs) ==
    /\ frame * fs > ScenarioSilenceBefore
    /\ (frame - 1) * fs < ScenarioSilenceBefore + ScenarioSpeech

ScenarioConfigs ==
    {[enabled |-> TRUE,
      profile |-> p,
      min_speech_ms |-> 90,
      silence_timeout_ms |-> 400,
      pre_roll_ms |-> 90,
      post_roll_ms |-> 150,
      volatility_window |-> w,
      volatility_increase_threshold |-> t[1],
      volatility_decrease_threshold |-> t[2]] :
        p \in Profiles, w \in 2..MaxWindow, t \in TrimThresholds}

E2EInit == \E cfg \in ScenarioConfigs : Built(cfg, ScenarioRate)

ScenarioCall == pc = "idle" /\ TrimBegin(ScenarioLen) /\ UNCHANGED <<calls, app>>

ScenarioStep == TrimFrame(ScenarioIsSpeech(evaluated_frames + 1, frame_samples))

E2ENext ==
    \/ ScenarioCall
    \/ ScenarioStep
    \/ TrimFinish

SpecE2E == E2EInit /\ [][E2ENext]_vars

----------------------------------------------------------------------------
(* SpecApp: HyprwhsprApp::process_audio on a captured recording (app.rs 465-598) *)

\* frames in a captured recording
MaxAppFrames == 3

\* resample_audio(samples, src_rate, dst_rate).len() (app.rs 26-39)
ResampleLen(len, src_rate, dst_rate) ==
    IF len = 0 \/ src_rate = 0 \/ dst_rate = 0 THEN 0
    ELSE IF src_rate = dst_rate THEN len
    ELSE (len * dst_rate + src_rate \div 2) \div src_rate

AppConfigs ==
    {[enabled |-> TRUE,
      profile |-> p,
      min_speech_ms |-> 20,
      silence_timeout_ms |-> 50,
      pre_roll_ms |-> 20,
      post_roll_ms |-> 20,
      volatility_window |-> 2,
      volatility_increase_threshold |-> t[1],
      volatility_decrease_threshold |-> t[2]] :
        p \in Profiles, t \in TrimThresholds}

\* rates a recording is captured at: two supported, one not
AppRates == {16000, 48000, 44100}

\* captured recordings are not empty (stop_recording, app.rs 480)
AppLens(rate) == {k * FrameSamples(rate) : k \in 1..MaxAppFrames}

\* self.fast_vad is None: maybe_new returned None for a disabled configuration
NoVad ==
    /\ config = NoConfig
    /\ settings = NoSettings
    /\ sample_rate_hz = 0
    /\ frame_samples = 0
    /\ current_profile = None
    /\ decision_history = <<>>
    /\ profile_switches = 0
    /\ detector = NewDetector(None)
    /\ pc = "disabled"
    /\ audio_len = 0
    /\ trimmed = <<>>
    /\ active_segment = <<>>
    /\ pre_roll = <<>>
    /\ pending_silence = <<>>
    /\ in_speech = FALSE
    /\ silence_frames = 0
    /\ evaluated_frames = 0
    /\ segments = 0
    /\ decisions = <<>>
    /\ outcome = NoOutcome
    /\ calls = 0
    /\ app = NoApp

AppInit ==
    \/ \E cfg \in AppConfigs : Built(cfg, 16000)
    \/ NoVad

\* process_audio up to the trim call (app.rs 495-514): without a trimmer the
\* recording goes on as captured; with one, an unsupported rate is resampled
\* to 16 kHz and the trimmer is set to the rate of the samples
preprocess_begin(len, rate) ==
    /\ app.stage \in {"idle", "finished"}
    /\ pc \in {"idle", "done", "error", "disabled"}
    /\ IF pc = "disabled"
       THEN /\ app' = [stage |-> "finished",
                       captured_len |-> len,
                       captured_rate |-> rate,
                       samples_len |-> len,
                       result |-> "transcribed",
                       sent_len |-> len,
                       sent_rate |-> rate,
                       sent_trimmed |-> FALSE,
                       backend_len |-> ResampleLen(len, rate, 16000)]
            /\ UNCHANGED <<sample_rate_hz, frame_samples>>
       ELSE LET supported == supports_sample_rate(rate)
                sample_rate == IF supported THEN rate ELSE 16000
            IN  /\ app' = [stage |-> "prepared",
                           captured_len |-> len,
                           captured_rate |-> rate,
                           samples_len |-> IF supported THEN len
                                           ELSE ResampleLen(len, rate, 16000),
                           result |-> "none",
                           sent_len |-> 0,
                           sent_rate |-> 0,
                           sent_trimmed |-> FALSE,
                           backend_len |-> 0]
                /\ sample_rate_hz' = sample_rate
                /\ frame_samples' = FrameSamples(sample_rate)
    /\ UNCHANGED <<config, settings, instance_vars, pc, audio_len, local_vars, decisions,
                   outcome, calls>>

PreprocessBegin == \E rate \in AppRates : \E len \in AppLens(rate) : preprocess_begin(len, rate)

\* vad.trim(&samples) is entered (app.rs 516)
PreprocessTrim ==
    /\ app.stage = "prepared"
    /\ TrimBegin(app.samples_len)
    /\ app' = [app EXCEPT !.stage = "trimming"]
    /\ UNCHANGED calls

\* variant: the recording goes to the transcriber as captured, whatever trim kept
PreprocessEnd_untrimmed ==
    /\ app.stage = "trimming"
    /\ pc \in {"done", "error"}
    /\ app' = IF pc = "error"
              THEN [app EXCEPT !.stage = "finished", !.result = "failed"]
              ELSE [app EXCEPT !.stage = "finished",
                               !.result = "transcribed",
                               !.sent_len = app.samples_len,
                               !.sent_rate = sample_rate_hz,
                               !.sent_trimmed = FALSE,
                               !.backend_len = ResampleLen(app.samples_len,
                                                           sample_rate_hz, 16000)]
    /\ UNCHANGED <<config, settings, sample_rate_hz, frame_samples, instance_vars, pc,
                   audio_len, local_vars, decisions, outcome, calls>>

\* trim returned (app.rs 516-553) and process_audio goes on (app.rs 556-582):
\* an error leaves through the ? operators and is logged by stop_recording
\* (app.rs 482-486); an empty result skips the transcription; otherwise the
\* trimmed audio goes to the transcriber
PreprocessEnd ==
    /\ app.stage = "trimming"
    /\ pc \in {"done", "error"}
    /\ app' = IF pc = "error"
              THEN [app EXCEPT !.stage = "finished", !.result = "failed"]
              ELSE IF outcome.trimmed_audio = <<>>
              THEN [app EXCEPT !.stage = "finished", !.result = "skipped"]
              ELSE [app EXCEPT !.stage = "finished",
                               !.result = "transcribed",
                               !.sent_len = outcome.trimmed_len,
                               !.sent_rate = sample_rate_hz,
                               !.sent_trimmed = TRUE,
                               !.backend_len = ResampleLen(outcome.trimmed_len,
                                                           sample_rate_hz, 16000)]
    /\ UNCHANGED <<config, settings, sample_rate_hz, frame_samples, instance_vars, pc,
                   audio_len, local_vars, decisions, outcome, calls>>

AppNext ==
    \/ PreprocessBegin
    \/ PreprocessTrim
    \/ TrimStep
    \/ TrimClassifyFail
    \/ TrimFinish
    \/ PreprocessEnd

SpecApp == AppInit /\ [][AppNext]_vars

----------------------------------------------------------------------------
(* One trimmer whose rate is set between trim calls *)

RateInit == \E cfg \in AppConfigs : Built(cfg, 16000)

\* trim(audio) at the rate the trimmer holds
RateCall ==
    \E len \in CallLens(frame_samples) :
        /\ TrimBegin(len)
        /\ UNCHANGED <<calls, app>>

RateNext ==
    \/ SetSampleRate
    \/ RateCall
    \/ TrimStep
    \/ TrimClassifyFail
    \/ TrimFinish

SpecRate == RateInit /\ [][RateNext]_vars

----------------------------------------------------------------------------
(* Properties *)

\* a trim call on a non-empty input returned an outcome
Completed == pc = "done" /\ outcome.ok /\ audio_len > 0

SpeechAt(i) == decisions[i] = "speech"

\* frames a+1 .. a+L are the only speech frames of the call
IsolatedRegion(a, L) ==
    /\ a + L <= Len(decisions)
    /\ \A i \in 1..Len(decisions) : SpeechAt(i) <=> (a < i /\ i <= a + L)

\* an isolated region of L >= min_speech_frames frames with ample silence
\* around it, in an input of whole frames
PaddingCase(a, L) ==
    /\ L >= 1
    /\ IsolatedRegion(a, L)
    /\ audio_len = Len(decisions) * frame_samples
    /\ a >= settings.pre_roll_frames
    /\ L >= settings.min_speech_frames
    /\ Len(decisions) - (a + L) >= settings.silence_timeout_frames

\* C1 (padding bound): a single speech region of L >= min_speech_frames frames
\* after at least pre_roll_frames of silence and before at least
\* silence_timeout_frames of silence yields exactly
\* (pre_roll_frames + L + min(post_roll_frames, silence_timeout_frames)) frames
\* of samples and 1 segment.
C1_PaddingBound ==
    Completed =>
        \A a \in 0..Len(decisions), L \in 1..Len(decisions) :
            PaddingCase(a, L) =>
                /\ outcome.trimmed_len =
                       (settings.pre_roll_frames + L
                        + Min(settings.post_roll_frames, settings.silence_timeout_frames))
                       * frame_samples
                /\ outcome.segments = 1

C1_Witness ==
    /\ Completed
    /\ settings.pre_roll_frames >= 1
    /\ settings.post_roll_frames >= 1
    /\ \E a \in 1..Len(decisions), L \in 1..Len(decisions) : PaddingCase(a, L)

\* frame positions held by a buffer
FramesOf(buf) == {buf[i] : i \in 1..Len(buf)}

\* frames s..e are a maximal speech run shorter than min_speech_frames that
\* starts from silence (start of input, or a full silence timeout before it)
\* and is followed by at least silence_timeout_frames of silence
ShortBurst(s, e) ==
    /\ s <= e
    /\ e - s + 1 < settings.min_speech_frames
    /\ \A i \in s..e : SpeechAt(i)
    /\ \/ \A i \in 1..(s - 1) : ~SpeechAt(i)
       \/ /\ s - 1 >= settings.silence_timeout_frames
          /\ \A i \in (s - settings.silence_timeout_frames)..(s - 1) : ~SpeechAt(i)
    /\ e + settings.silence_timeout_frames <= Len(decisions)
    /\ \A i \in (e + 1)..(e + settings.silence_timeout_frames) : ~SpeechAt(i)

\* C2 (short-burst rejection): a run of fewer than min_speech_frames speech
\* frames followed by at least silence_timeout_frames of silence puts none of
\* its frames in the output, and an input whose only speech is such a run
\* has no segment.
C2_ShortBurstRejected ==
    Completed =>
        \A s \in 1..Len(decisions), e \in 1..Len(decisions) :
            ShortBurst(s, e) =>
                /\ FramesOf(outcome.trimmed_audio) \cap (s..e) = {}
                /\ IsolatedRegion(s - 1, e - s + 1) => outcome.segments = 0

StrictlyIncreasing(buf) == \A i \in 1..(Len(buf) - 1) : buf[i] < buf[i + 1]

\* C3 (order preservation): the trimmed output holds input frames in strictly
\* increasing input position, each at most once.
C3_OrderPreserved == Completed => StrictlyIncreasing(outcome.trimmed_audio)

\* C4 (dropped-sample accounting): dropped_samples + trimmed_audio.len() equals
\* the input length, so the output is never longer than the input.
C4_DroppedAccounting ==
    (pc = "done" /\ outcome.ok) =>
        /\ outcome.dropped_samples + outcome.trimmed_len = audio_len
        /\ outcome.trimmed_len <= audio_len

AllSilence == \A i \in 1..Len(decisions) : decisions[i] = "silence"

\* C5 (pure silence): a non-empty input whose frames are all non-speech gives
\* an empty trimmed buffer, no segment and dropped_samples = input length.
C5_PureSilence ==
    (Completed /\ AllSilence) =>
        /\ outcome.trimmed_audio = <<>>
        /\ outcome.trimmed_len = 0
        /\ outcome.segments = 0
        /\ outcome.dropped_samples = audio_len

C5_Witness ==
    /\ Completed
    /\ AllSilence
    /\ Len(decisions) >= 3
    /\ audio_len # Len(decisions) * frame_samples

Alternating == \A i \in 1..(Len(decisions) - 1) : decisions[i] # decisions[i + 1]

\* C6 as stated (volatility escalation): an alternating decision sequence of at
\* least volatility_window decisions, fed from the base profile, has made at
\* least one profile switch, and the profile stays on the ladder.
C6_AlternationEscalates ==
    /\ current_profile \in Profiles
    /\ (Alternating /\ Len(decisions) >= settings.volatility_window) =>
           profile_switches >= 1

\* the controller has a rank to escalate to and a threshold a volatility can pass
CanLeaveBase ==
    /\ settings.base_profile # "VeryAggressive"
    /\ settings.volatility_increase_threshold < 100

\* C6 amended: when the base profile is not VeryAggressive and the resolved
\* increase threshold is below 1.0, an alternating sequence of at least
\* volatility_window decisions has made at least one switch, the first one at
\* the second decision from base to the next higher rank; the profile never
\* leaves the ladder.
C6_AlternationEscalatesFromBelowTop ==
    /\ current_profile \in Profiles
    /\ (Alternating /\ CanLeaveBase /\ Len(decisions) >= settings.volatility_window) =>
           profile_switches >= 1
    /\ (Alternating /\ CanLeaveBase /\ Len(decisions) = 2) =>
           /\ profile_switches = 1
           /\ current_profile = more_aggressive(settings.base_profile)

C6_Witness ==
    /\ Alternating
    /\ CanLeaveBase
    /\ settings.volatility_window >= 3
    /\ Len(decisions) >= settings.volatility_window
    /\ profile_switches >= 2
    /\ current_profile = "VeryAggressive"

\* decision histories the controller can hold, up to MaxDecisions long
Histories(window) ==
    UNION {[1..n -> BOOLEAN] : n \in 1..Min(window, MaxDecisions)}

\* some decision history makes adjust_profile take the escalation branch
CanEscalate ==
    \E h \in Histories(settings.volatility_window) :
        Above(volatility_of(h), settings.volatility_increase_threshold)

\* C7 (threshold sanitation): a configuration with decrease >= increase resolves
\* to settings under which some decision history has a volatility strictly
\* above the resolved increase threshold.
C7_SanitisedCanEscalate ==
    (pc = "idle"
     /\ config.volatility_decrease_threshold >= config.volatility_increase_threshold) =>
        CanEscalate

\* C8 (profile floor): the active profile never ranks below the base profile,
\* during every frame and in the outcome.
C8_ProfileFloor ==
    /\ rank(current_profile) >= rank(settings.base_profile)
    /\ outcome.ok => rank(outcome.final_profile) >= rank(settings.base_profile)

\* the controller went up and came back down to a base above Quality
C8_Witness ==
    /\ pc = "loop"
    /\ settings.base_profile # "Quality"
    /\ profile_switches >= 2
    /\ current_profile = settings.base_profile

\* trimmed duration in milliseconds, as the unit tests compute it
TrimmedMs == (outcome.trimmed_len * 1000) \div sample_rate_hz

\* C9 as stated (end-to-end scenario): 1 segment, a trimmed duration between
\* 900 ms and 1200 ms, and dropped_samples > 0.
C9_ScenarioBetween900And1200 ==
    pc = "done" =>
        /\ outcome.ok
        /\ outcome.segments = 1
        /\ TrimmedMs >= 900
        /\ TrimmedMs <= 1200
        /\ outcome.dropped_samples > 0

\* C9 amended: 1 segment, a trimmed duration of exactly 840 ms, which is
\* (3 pre-roll + 20 speech + 5 post-roll) frames of 30 ms, and
\* dropped_samples > 0.
C9_ScenarioIs840Ms ==
    pc = "done" =>
        /\ outcome.ok
        /\ outcome.segments = 1
        /\ outcome.trimmed_len = (3 + 20 + 5) * frame_samples
        /\ TrimmedMs = 840
        /\ outcome.trimmed_audio = [i \in 1..28 |-> i + 7]
        /\ outcome.dropped_samples = ScenarioLen - outcome.trimmed_len
        /\ outcome.dropped_samples > 0

C9_Witness ==
    /\ pc = "done"
    /\ audio_len = ScenarioLen
    /\ outcome.ok
    /\ outcome.evaluated_frames = 54

HasError(log) == \E i \in 1..Len(log) : log[i] = "error"

\* C10 (classification failure aborts the call): once the classifier has failed
\* on a frame the call is in the error state with no outcome; the failing
\* step leaves every buffer, counter and the controller as they were (the
\* frame is not processed as non-speech), and nothing but a new call follows.
C10_FailureAborts ==
    [][/\ HasError(decisions') => (pc' = "error" /\ outcome' = NoOutcome)
       /\ (~HasError(decisions) /\ HasError(decisions')) =>
              /\ decisions' = Append(decisions, "error")
              /\ UNCHANGED <<local_vars, instance_vars>>
       /\ HasError(decisions) => (decisions' = <<>> /\ evaluated_frames' = 0)]_vars

\* the classifier failed in the middle of a segment
C10_Witness ==
    /\ pc = "error"
    /\ HasError(decisions)
    /\ Len(decisions) >= 3
    /\ in_speech
    /\ pending_silence # <<>>

RECURSIVE FreshState(_)
\* the controller and the buffers of a freshly built trimmer (with_settings)
\* after the first k frames of the current call, given the same verdicts
FreshState(k) ==
    IF k = 0 THEN [self |-> with_settings(settings), loc |-> InitLocals]
    ELSE LET prev == FreshState(k - 1)
             is_speech == decisions[k] = "speech"
             pcm_frame == convert_frame(ChunkLen(k, audio_len, frame_samples), frame_samples)
         IN  [self |-> Observe([prev.self EXCEPT !.detector.frames = @ + 1,
                                                   !.detector.pcm_len = pcm_frame],
                               is_speech),
              loc |-> process_frame(prev.loc, k, is_speech)]

\* the outcome trim returns on a freshly built trimmer for the current input
FreshOutcome ==
    LET st == FreshState(Len(decisions))
        loc == final_flush(st.loc)
        trimmed_len == SampleLen(loc.trimmed, audio_len, frame_samples)
    IN  [ok |-> TRUE,
         trimmed_audio |-> loc.trimmed,
         trimmed_len |-> trimmed_len,
         segments |-> loc.segments,
         evaluated_frames |-> Len(decisions),
         profile_switches |-> st.self.profile_switches,
         final_profile |-> st.self.current_profile,
         dropped_samples |-> dropped_samples(audio_len, trimmed_len)]

\* C11 (no carry-over between calls): a call on a non-empty input starts with
\* the profile at base, an empty decision history and a switch counter of 0,
\* whatever the earlier call left, and its outcome is the one a freshly built
\* trimmer returns for the same input and verdicts.
C11_NoCarryOver ==
    /\ (pc = "loop" /\ evaluated_frames = 0) => Self = with_settings(settings)
    /\ Completed => outcome = FreshOutcome

\* a second call completed with a profile switch of its own
C11_Witness ==
    /\ calls = 2
    /\ Completed
    /\ outcome.profile_switches >= 1
    /\ outcome.segments >= 1

\* C12 (unsupported sample rate): a trimmer holding a rate outside
\* {8000, 16000, 32000, 48000} never returns a successful outcome and never
\* gets a frame classified, whatever the input.
C12_UnsupportedRateFails ==
    ~supports_sample_rate(sample_rate_hz) =>
        /\ ~outcome.ok
        /\ evaluated_frames = 0

\* the outcome of trim on an empty buffer (vad.rs 216-223)
EmptyOutcome ==
    [ok |-> TRUE,
     trimmed_audio |-> <<>>,
     trimmed_len |-> 0,
     segments |-> 0,
     evaluated_frames |-> 0,
     profile_switches |-> 0,
     final_profile |-> settings.base_profile,
     dropped_samples |-> 0]

\* C13 (empty input): trim on an empty buffer returns at once an empty trimmed
\* buffer with segments, evaluated_frames, profile_switches and
\* dropped_samples all 0 and final_profile = base profile; no frame is
\* classified and the controller and the detector are left as they were.
C13_EmptyInput ==
    [][(pc' = "done" /\ audio_len' = 0) =>
           /\ outcome' = EmptyOutcome
           /\ decisions' = <<>>
           /\ evaluated_frames' = 0
           /\ UNCHANGED instance_vars]_vars

\* an empty call on a trimmer whose last call ended escalated
C13_Witness ==
    /\ pc = "done"
    /\ audio_len = 0
    /\ outcome.ok
    /\ current_profile # settings.base_profile
    /\ profile_switches >= 1

\* C14 (whole frames only, as stated): for every input length the trimmed
\* output length is a multiple of frame_samples.
C14_WholeFramesOnly ==
    Completed => outcome.trimmed_len % frame_samples = 0

\* the input's last chunk is in the output
LastChunkKept == NumChunks(audio_len, frame_samples) \in FramesOf(outcome.trimmed_audio)

\* C14 (whole frames only, amended): the output is made of input chunks as
\* they are; its length is a multiple of frame_samples unless the input ends
\* with a short chunk that is kept, which then contributes its own sample
\* count once (the zero padding goes to the classifier only).
C14_WholeChunksOfInput ==
    Completed =>
        outcome.trimmed_len % frame_samples =
            IF LastChunkKept THEN audio_len % frame_samples ELSE 0

C14_Witness ==
    /\ Completed
    /\ audio_len % frame_samples # 0
    /\ outcome.segments >= 1
    /\ LastChunkKept
    /\ outcome.trimmed_len % frame_samples # 0

\* the speech frames of the call are exactly a1+1 .. a1+L1 and a2+1 .. a2+L2,
\* each region long enough, with pre_roll_frames of silence before the first,
\* silence_timeout_frames of silence between them and silence_timeout_frames
\* of whole silence frames after the second
TwoRegions(a1, L1, a2, L2) ==
    /\ L1 >= settings.min_speech_frames
    /\ L2 >= settings.min_speech_frames
    /\ a1 >= settings.pre_roll_frames
    /\ a2 - (a1 + L1) >= settings.silence_timeout_frames
    /\ (audio_len \div frame_samples) - (a2 + L2) >= settings.silence_timeout_frames
    /\ \A i \in 1..Len(decisions) :
           SpeechAt(i) <=> \/ (a1 < i /\ i <= a1 + L1)
                           \/ (a2 < i /\ i <= a2 + L2)

\* C15 (multiple segments): two long enough speech regions of L1 and L2 frames
\* with pre_roll_frames of silence before, silence_timeout_frames of silence
\* between and after them give 2 segments, every speech frame of both regions
\* in the output, and at least (L1 + L2 + 2 * (pre_roll_frames +
\* post_roll_frames)) * frame_samples output samples.
C15_TwoSegments ==
    Completed =>
        \A a1 \in 0..Len(decisions) : \A L1 \in 1..(Len(decisions) - a1) :
        \A a2 \in (a1 + L1)..Len(decisions) : \A L2 \in 1..(Len(decisions) - a2) :
            TwoRegions(a1, L1, a2, L2) =>
                /\ outcome.segments = 2
                /\ ((a1 + 1)..(a1 + L1)) \cup ((a2 + 1)..(a2 + L2))
                       \subseteq FramesOf(outcome.trimmed_audio)
                /\ outcome.trimmed_len >=
                       (L1 + L2 + 2 * (settings.pre_roll_frames + settings.post_roll_frames))
                       * frame_samples

C15_Witness ==
    /\ Completed
    /\ settings.pre_roll_frames >= 1
    /\ settings.post_roll_frames >= 1
    /\ outcome.segments = 2
    /\ \E a1 \in 1..Len(decisions), L1 \in 1..Len(decisions),
          a2 \in 1..Len(decisions), L2 \in 1..Len(decisions) :
           TwoRegions(a1, L1, a2, L2)

\* the input ends with k non-speech frames (0 <= k < silence_timeout_frames)
\* after the speech frame e, the last of a run of at least min_speech_frames
\* speech frames: the segment holding e is still active at the end of stream
ActiveAtEnd(e, k) ==
    /\ e >= 1
    /\ e + k = Len(decisions)
    /\ k < settings.silence_timeout_frames
    /\ SpeechAt(e)
    /\ \A i \in (e + 1)..Len(decisions) : ~SpeechAt(i)
    /\ e >= settings.min_speech_frames
    /\ \A i \in (e - settings.min_speech_frames + 1)..e : SpeechAt(i)

\* number of entries of buf that are frames after position e
CountAfter(buf, e) == Cardinality({i \in 1..Len(buf) : buf[i] > e})

\* C16 (end of stream while a segment is active): when the input ends with
\* k < silence_timeout_frames non-speech frames after the last speech frame
\* of an active segment, the output holds exactly min(k, post_roll_frames)
\* of those trailing frames.
C16_TrailingCappedAtPostRoll ==
    Completed =>
        \A e \in 1..Len(decisions), k \in 0..Len(decisions) :
            ActiveAtEnd(e, k) =>
                CountAfter(outcome.trimmed_audio, e) = Min(k, settings.post_roll_frames)

\* the input ends during a speech run s .. Len(decisions) of fewer than
\* min_speech_frames frames that started from silence: it is the first speech
\* of the input, or at least silence_timeout_frames of silence precede it
UnfinishedCandidate(s) ==
    /\ s >= 1
    /\ s <= Len(decisions)
    /\ Len(decisions) - s + 1 < settings.min_speech_frames
    /\ \A i \in s..Len(decisions) : SpeechAt(i)
    /\ \/ \A i \in 1..(s - 1) : ~SpeechAt(i)
       \/ /\ s - 1 >= settings.silence_timeout_frames
          /\ \A i \in (s - settings.silence_timeout_frames)..(s - 1) : ~SpeechAt(i)

\* C17 (end of stream with an unfinished candidate): when the input ends
\* during a run of fewer than min_speech_frames speech frames that started
\* from silence, none of the run's frames is in the output, and an input
\* with no other speech has an empty output and no segment (so no pre-roll
\* for the run either), whatever pre_roll_frames is.
C17_UnfinishedCandidateDiscarded ==
    Completed =>
        \A s \in 1..Len(decisions) :
            UnfinishedCandidate(s) =>
                /\ FramesOf(outcome.trimmed_audio) \cap (s..Len(decisions)) = {}
                /\ (\A i \in 1..(s - 1) : ~SpeechAt(i)) =>
                       /\ outcome.trimmed_audio = <<>>
                       /\ outcome.segments = 0

\* a step of the frame loop that closes the active segment on silence timeout
ClosesSegment == pc = "loop" /\ pc' = "loop" /\ in_speech /\ ~in_speech'

\* C18 (close clears the buffers): when a segment closes because the silence
\* run reached silence_timeout_frames, the trailing-silence buffer and the
\* pre-roll buffer are both empty afterwards.
C18_CloseClearsBuffers ==
    [][ClosesSegment => (pending_silence' = <<>> /\ pre_roll' = <<>>)]_vars

\* a step of the frame loop that closes the active segment and commits it
CommitsOnTimeout == ClosesSegment /\ segments' = segments + 1

\* the trailing silence frames of the segment being closed that are in the
\* output after the close: the closing frame is Len(decisions') and the last
\* speech frame is silence_timeout_frames before it
KeptTrailing ==
    {f \in FramesOf(trimmed') : f > Len(decisions') - settings.silence_timeout_frames}

PostRollKept == Min(settings.post_roll_frames, settings.silence_timeout_frames)

\* C19 (post-roll selection on close, as stated): the trailing silence kept
\* when a segment closes on silence timeout is the most recent
\* min(post_roll_frames, silence_timeout_frames) non-speech frames before the
\* close.
C19_MostRecentTrailingKept ==
    [][CommitsOnTimeout =>
           KeptTrailing = (Len(decisions') - PostRollKept + 1)..Len(decisions')]_vars

\* C19 (post-roll selection on close, amended): the trailing silence kept is
\* the first min(post_roll_frames, silence_timeout_frames) non-speech frames
\* right after the last speech frame, each once; the later ones are dropped.
C19_FirstTrailingKept ==
    [][CommitsOnTimeout =>
           LET e == Len(decisions') - settings.silence_timeout_frames
           IN  /\ KeptTrailing = (e + 1)..(e + PostRollKept)
               /\ CountAfter(trimmed', e) = PostRollKept]_vars

\* a committed segment closed by the last frame of the input, with a
\* post-roll shorter than the silence timeout
C19_Witness ==
    /\ Completed
    /\ outcome.segments >= 1
    /\ settings.post_roll_frames >= 1
    /\ settings.post_roll_frames < settings.silence_timeout_frames
    /\ LET e == Len(decisions) - settings.silence_timeout_frames
       IN  /\ e >= 1
           /\ SpeechAt(e)
           /\ \A i \in (e + 1)..Len(decisions) : ~SpeechAt(i)
           /\ e + 1 \in FramesOf(outcome.trimmed_audio)
           /\ Len(decisions) \notin FramesOf(outcome.trimmed_audio)

\* the first speech of the input is a run s..e of fewer than
\* min_speech_frames frames; non-speech frames e+1 .. t-1 follow (at least
\* one, fewer than silence_timeout_frames), and speech resumes at t for at
\* least min_speech_frames frames
FalseStart(s, e, t) ==
    /\ 1 <= s
    /\ s <= e
    /\ e + 1 < t
    /\ e - s + 1 < settings.min_speech_frames
    /\ t - 1 - e < settings.silence_timeout_frames
    /\ t + settings.min_speech_frames - 1 <= Len(decisions)
    /\ \A i \in 1..(t + settings.min_speech_frames - 1) :
           SpeechAt(i) <=> (s <= i /\ i <= e) \/ t <= i

\* the part of buf made of frames up to position t
UpTo(buf, t) == SelectSeq(buf, LAMBDA f : f <= t)

Occurrences(buf, f) == Cardinality({i \in 1..Len(buf) : buf[i] = f})

\* a step of the frame loop taking a speech frame in an active segment whose
\* silence run is not empty
ResumesSpeech ==
    /\ pc = "loop"
    /\ pc' = "loop"
    /\ in_speech
    /\ silence_frames >= 1
    /\ decisions'[Len(decisions')] = "speech"

\* the step keeps the gap inside the open segment
GapJoinsSegment ==
    LET g == silence_frames
        n == Len(decisions')
        seg == active_segment'
    IN  /\ Len(seg) >= g + 1
        /\ \A k \in 0..g : seg[Len(seg) - g + k] = n - g + k
        /\ \A f \in (n - g)..n : Occurrences(trimmed' \o seg, f) = 1
        /\ pending_silence' = <<>>
        /\ silence_frames' = 0
        /\ in_speech'
        /\ segments' = segments
        /\ trimmed' = trimmed

\* frames e and t are speech with only non-speech frames between them, at
\* least one and fewer than silence_timeout_frames
ShortPause(e, t) ==
    /\ e + 1 < t
    /\ t - e - 1 < settings.silence_timeout_frames
    /\ SpeechAt(e)
    /\ SpeechAt(t)
    /\ \A i \in (e + 1)..(t - 1) : ~SpeechAt(i)

\* C21 (short pauses stay inside the segment): a speech frame arriving in an
\* active segment after g non-speech frames, 1 <= g < silence_timeout_frames,
\* puts all g buffered frames in the segment exactly once, in input order,
\* before that frame, resets the silence run to 0 and neither closes nor
\* splits the segment; in the outcome the frames of the pause stand, once
\* each, between the two speech frames whenever the later one is emitted.
C21_ShortPauseKept ==
    /\ [][ResumesSpeech => GapJoinsSegment]_vars
    /\ [](Completed =>
            \A e \in 1..Len(decisions) : \A t \in (e + 2)..Len(decisions) :
                (ShortPause(e, t) /\ t \in FramesOf(outcome.trimmed_audio)) =>
                    /\ \A f \in (e + 1)..(t - 1) : Occurrences(outcome.trimmed_audio, f) = 1
                    /\ \E i \in 1..Len(outcome.trimmed_audio) :
                           /\ i + (t - e) <= Len(outcome.trimmed_audio)
                           /\ \A k \in 0..(t - e) : outcome.trimmed_audio[i + k] = e + k)

C21_Witness ==
    /\ Completed
    /\ settings.post_roll_frames >= 1
    /\ \E e \in 1..Len(decisions) : \E t \in (e + 2)..Len(decisions) :
           /\ ShortPause(e, t)
           /\ t \in FramesOf(outcome.trimmed_audio)

\* a step that pushes one decision to the controller
PushesDecision ==
    /\ Len(decisions') = Len(decisions) + 1
    /\ decisions'[Len(decisions')] \in {"speech", "silence"}

\* the decision history holds fewer than 2 decisions after the push
ShortHistoryAfterPush ==
    Len(push_decision(Self, TRUE).self.decision_history) < 2

\* C22 (no controller action on a short history): whenever the decision
\* history holds fewer than 2 decisions after a push, the volatility is 0 and
\* the profile is not changed on that frame.
C22_ShortHistoryNoAction ==
    [][(PushesDecision /\ ShortHistoryAfterPush) =>
           /\ push_decision(Self, decisions'[Len(decisions')] = "speech").volatility.num = 0
           /\ current_profile' = current_profile
           /\ profile_switches' = profile_switches]_vars

RECURSIVE ControllerAfter(_)
\* the controller fields after the first k decisions of the log, starting
\* from with_settings (the classifier's frame count left aside)
ControllerAfter(k) ==
    IF k = 0 THEN with_settings(settings)
    ELSE Observe(ControllerAfter(k - 1), decisions[k] = "speech")

\* rank of the active profile after the first k decisions of the log, the
\* controller starting from with_settings
RankAfter(k) == rank(ControllerAfter(k).current_profile)

\* the profile moved one way at decision n and the other way at decision n + 1
Oscillates(n) ==
    \/ RankAfter(n) > RankAfter(n - 1) /\ RankAfter(n + 1) < RankAfter(n)
    \/ RankAfter(n) < RankAfter(n - 1) /\ RankAfter(n + 1) > RankAfter(n)

\* C23 (no frame-by-frame oscillation): with the decrease threshold strictly
\* below the increase threshold, the controller never switches the profile in
\* opposite directions on two consecutive frames.
C23_NoOscillation ==
    settings.volatility_decrease_threshold < settings.volatility_increase_threshold =>
        /\ RankAfter(Len(decisions)) = rank(current_profile)
        /\ \A n \in 1..(Len(decisions) - 1) : ~Oscillates(n)

\* a step of the frame loop that classified a frame
LoopFrame == pc = "loop" /\ pc' = "loop" /\ evaluated_frames' = evaluated_frames + 1

RECURSIVE SwitchFrames(_, _)
\* number of frames of the log, from frame k on, at which the active profile
\* changed, the controller being self before frame k
SwitchFrames(self, k) ==
    IF k > Len(decisions) THEN 0
    ELSE LET next == Observe(self, decisions[k] = "speech")
         IN  (IF next.current_profile # self.current_profile THEN 1 ELSE 0)
             + SwitchFrames(next, k + 1)

\* C24 (profile switch is one atomic step): every change of the active
\* profile during trim moves exactly one rank, installs a fresh classifier
\* for the new profile, empties the decision history and adds exactly 1 to
\* profile_switches; a frame without a change leaves the counter alone, and
\* the outcome's profile_switches is the number of frames at which the
\* profile changed.
C24_SwitchIsAtomic ==
    /\ [][LoopFrame =>
            IF current_profile' # current_profile
            THEN /\ rank(current_profile') - rank(current_profile) \in {-1, 1}
                 /\ detector' = NewDetector(current_profile')
                 /\ decision_history' = <<>>
                 /\ profile_switches' = profile_switches + 1
            ELSE profile_switches' = profile_switches]_vars
    /\ [](Completed => outcome.profile_switches = SwitchFrames(with_settings(settings), 1))

C24_Witness ==
    /\ Completed
    /\ outcome.profile_switches >= 2
    /\ outcome.final_profile # settings.base_profile

\* number of consecutive non-speech frames of the log directly before frame t
SilenceBefore(log, t) ==
    LET speech == {i \in 1..(t - 1) : log[i] = "speech"}
    IN  IF speech = {} THEN t - 1
        ELSE t - 1 - (CHOOSE i \in speech : \A j \in speech : j <= i)

\* the pre-roll a segment starting at frame t is due: the last
\* min(pre_roll_frames, n) frames before t, oldest first
PreRollFor(log, t) ==
    LET m == Min(settings.pre_roll_frames, SilenceBefore(log, t))
    IN  [i \in 1..m |-> t - m + i - 1]

\* a step of the frame loop that opens a segment
StartsSegment == pc = "loop" /\ pc' = "loop" /\ ~in_speech /\ in_speech'

\* frame t opened a segment: it is a speech frame right after the start of
\* the input or after at least silence_timeout_frames non-speech frames
OpensSegment(t) ==
    /\ SpeechAt(t)
    /\ \/ SilenceBefore(decisions, t) = t - 1
       \/ SilenceBefore(decisions, t) >= settings.silence_timeout_frames

\* buf holds the frames of part, in a row, right before frame t
DirectlyBefore(buf, part, t) ==
    \E i \in 1..Len(buf) :
        /\ buf[i] = t
        /\ i > Len(part)
        /\ \A k \in 1..Len(part) : buf[i - Len(part) + k - 1] = part[k]

\* C25 (pre-roll content): the pre-roll prepended to a segment is exactly the
\* min(pre_roll_frames, n) non-speech frames right before its first speech
\* frame, oldest first, n being the number of consecutive non-speech frames
\* directly before it; a committed segment carries them in the output right
\* before that frame; the pre-roll buffer never holds more than
\* pre_roll_frames frames (none when pre_roll_frames is 0).
C25_PreRollContent ==
    /\ [][StartsSegment =>
            active_segment' =
                Append(PreRollFor(decisions', Len(decisions')), Len(decisions'))]_vars
    /\ [](Len(pre_roll) <= settings.pre_roll_frames)
    /\ [](Completed =>
            \A t \in 1..Len(decisions) :
                (OpensSegment(t) /\ t \in FramesOf(outcome.trimmed_audio)) =>
                    DirectlyBefore(outcome.trimmed_audio, PreRollFor(decisions, t), t))

\* a committed second segment whose pre-roll is shorter than the silence
\* before it
C25_Witness ==
    /\ Completed
    /\ outcome.segments = 2
    /\ settings.pre_roll_frames >= 1
    /\ settings.pre_roll_frames < settings.silence_timeout_frames
    /\ \E t \in 3..Len(decisions) :
           /\ OpensSegment(t)
           /\ SilenceBefore(decisions, t) < t - 1
           /\ t \in FramesOf(outcome.trimmed_audio)

\* C26 (trimming failure falls back to the untrimmed audio): when trim
\* returns an error during preprocessing, the pipeline goes on with the
\* original untrimmed samples and the transcription is still attempted.
C26_TrimFailureFallsBack ==
    (app.stage = "finished" /\ pc = "error") =>
        /\ app.result = "transcribed"
        /\ app.sent_len = app.samples_len
        /\ ~app.sent_trimmed

\* C27 (threshold ordering after resolution): from_config yields
\* 0 <= decrease < increase <= 1 for every configured pair; when the
\* configured increase is not strictly greater than the configured decrease
\* the resolved increase is the resolved decrease plus the minimum separation
\* 0.01; a pair already in strict order inside [0, 1] is left unchanged
\* (thresholds in hundredths).
C27_ThresholdOrdering ==
    pc = "idle" =>
        LET increase == settings.volatility_increase_threshold
            decrease == settings.volatility_decrease_threshold
        IN  /\ 0 <= decrease
            /\ decrease < increase
            /\ increase <= 100
            /\ config.volatility_increase_threshold <= config.volatility_decrease_threshold =>
                   increase = decrease + MIN_VOLATILITY_DELTA
            /\ (/\ 0 <= config.volatility_decrease_threshold
                /\ config.volatility_decrease_threshold < config.volatility_increase_threshold
                /\ config.volatility_increase_threshold <= 100) =>
                   /\ increase = config.volatility_increase_threshold
                   /\ decrease = config.volatility_decrease_threshold

\* a decrease threshold at the top of the range, not below the increase
C27_Witness ==
    /\ pc = "idle"
    /\ config.volatility_decrease_threshold >= 100
    /\ config.volatility_increase_threshold <= config.volatility_decrease_threshold
    /\ settings.volatility_decrease_threshold = 99
    /\ settings.volatility_increase_threshold = 100

\* ceil(ms / FRAME_MS): the least number of frames that covers ms milliseconds
CeilFrames(ms) == CHOOSE n \in 0..ms : n * FRAME_MS >= ms /\ (n = 0 \/ (n - 1) * FRAME_MS < ms)

OriginalLen(i) == Min(frame_samples, audio_len - (i - 1) * frame_samples)

RECURSIVE OriginalSamples(_)
\* samples of the input held by the chunks of buf
OriginalSamples(buf) ==
    IF buf = <<>> THEN 0 ELSE OriginalLen(Head(buf)) + OriginalSamples(Tail(buf))

\* C29 (final partial frame): a short last frame is padded with zeros only
\* for classification: the classifier always gets frame_samples samples,
\* while the output takes each emitted chunk with its original sample count,
\* so the output holds input samples only and never a padding zero.
C29_PaddingOnlyForClassifier ==
    /\ [][(LoopFrame /\ current_profile' = current_profile) =>
              detector'.pcm_len = frame_samples]_vars
    /\ [](pc = "loop" =>
            \A i \in 1..NumChunks(audio_len, frame_samples) :
                convert_frame(ChunkLen(i, audio_len, frame_samples), frame_samples)
                    = frame_samples)
    /\ [](Completed =>
            /\ \A i \in 1..Len(outcome.trimmed_audio) :
                   outcome.trimmed_audio[i] \in 1..NumChunks(audio_len, frame_samples)
            /\ outcome.trimmed_len = OriginalSamples(outcome.trimmed_audio))

\* a short last frame was classified and is in the output
C29_Witness ==
    /\ Completed
    /\ audio_len % frame_samples # 0
    /\ detector.pcm_len = frame_samples
    /\ LastChunkKept
    /\ outcome.trimmed_len < Len(outcome.trimmed_audio) * frame_samples

\* a step inside a trim call: a frame of the loop or the final flush
TrimWorks == pc = "loop" /\ pc' \in {"loop", "done"}

\* the step appends a non-empty segment to the trimmed output
AppendsSegment ==
    /\ Len(trimmed') > Len(trimmed)
    /\ \A i \in 1..Len(trimmed) : trimmed'[i] = trimmed[i]

\* C30 (segment count matches output): segments goes up, by 1, exactly at
\* the steps that append a non-empty segment to the trimmed output; a
\* segment rejected for being too short leaves the output as it was; in
\* every outcome segments = 0 if and only if trimmed_audio is empty.
C30_SegmentsMatchOutput ==
    /\ [][TrimWorks =>
            IF segments' # segments
            THEN segments' = segments + 1 /\ AppendsSegment
            ELSE trimmed' = trimmed]_vars
    /\ [](outcome.ok =>
            /\ outcome.segments = 0 <=> outcome.trimmed_audio = <<>>
            /\ outcome.segments = 0 <=> outcome.trimmed_len = 0)

\* an outcome with no segment for an input whose open segment was rejected
\* at the end of the input
C30_Witness ==
    /\ Completed
    /\ in_speech
    /\ active_segment # <<>>
    /\ outcome.segments = 0
    /\ outcome.trimmed_audio = <<>>

\* process_audio is over and its trim call returned an outcome
TrimmedByApp == app.stage = "finished" /\ pc = "done" /\ outcome.ok

C31_WitnessSkipped ==
    /\ TrimmedByApp
    /\ app.result = "skipped"
    /\ app.samples_len > 0

\* the last n entries of a sequence
LastOf(seq, n) == SubSeq(seq, Len(seq) - n + 1, Len(seq))

RECURSIVE DifferingPairs(_)
\* number of adjacent pairs of h that differ
DifferingPairs(h) ==
    IF Len(h) < 2 THEN 0
    ELSE (IF h[1] # h[2] THEN 1 ELSE 0) + DifferingPairs(Tail(h))

\* the last frame of the log at which the profile changed, 0 if there is none
LastSwitchFrame ==
    LET switched == {n \in 1..Len(decisions) : RankAfter(n) # RankAfter(n - 1)}
    IN  IF switched = {} THEN 0 ELSE CHOOSE n \in switched : \A k \in switched : k <= n

\* the decisions made since the start or the last profile switch, oldest first
SinceSwitch ==
    [i \in 1..(Len(decisions) - LastSwitchFrame) |->
        decisions[LastSwitchFrame + i] = "speech"]

\* C32 (bounded decision history): after every push_decision the history
\* holds at most volatility_window decisions, the most recent ones since the
\* start or the last profile switch, in arrival order; the volatility
\* returned is the number of adjacent differing pairs over (length - 1),
\* and 0 for a history of one decision.
C32_BoundedHistory ==
    /\ [][PushesDecision =>
            LET decision == decisions'[Len(decisions')] = "speech"
                pushed == push_decision(Self, decision)
                hist == pushed.self.decision_history
                all == Append(decision_history, decision)
            IN  /\ Len(hist) <= settings.volatility_window
                /\ hist = LastOf(all, Min(Len(all), settings.volatility_window))
                /\ IF Len(hist) < 2
                   THEN pushed.volatility.num = 0
                   ELSE pushed.volatility.num * (Len(hist) - 1)
                            = DifferingPairs(hist) * pushed.volatility.den
                /\ decision_history' \in {hist, <<>>}]_vars
    /\ [](/\ Len(decision_history) <= settings.volatility_window
          /\ decision_history =
                 LastOf(SinceSwitch, Min(Len(SinceSwitch), settings.volatility_window)))

\* a full history that has evicted a decision and holds both verdicts
C32_Witness ==
    /\ Len(decision_history) = settings.volatility_window
    /\ Len(SinceSwitch) > settings.volatility_window
    /\ \E i \in 1..(Len(decision_history) - 1) : decision_history[i] # decision_history[i + 1]

\* C33 (frames evaluated): a trim of a non-empty input that returns an
\* outcome has classified each frame once, in input order, and reports
\* evaluated_frames = ceil(input length / frame_samples); frame_samples is
\* ceil(sample_rate_hz * 30 / 1000) of a supported rate at all times, and a
\* set_sample_rate that fails leaves sample_rate_hz and frame_samples as
\* they were.
C33_FramesEvaluated ==
    /\ [][(pc = "loop" /\ pc' = "done") =>
            LET n == outcome'.evaluated_frames
            IN  /\ outcome'.ok
                /\ n * frame_samples >= audio_len
                /\ (n - 1) * frame_samples < audio_len
                /\ Len(decisions') = n
                /\ \A i \in 1..n : decisions'[i] \in {"speech", "silence"}]_vars
    /\ [][(pc = "loop" /\ pc' = "loop" /\ decisions' # decisions) =>
            /\ decisions' = Append(decisions, decisions'[Len(decisions')])
            /\ Len(decisions') = evaluated_frames + 1
            /\ evaluated_frames' = evaluated_frames + 1]_vars
    /\ [][\A rate \in SetRates :
            (~supports_sample_rate(rate) /\ set_sample_rate(rate)) =>
                UNCHANGED <<sample_rate_hz, frame_samples>>]_vars
    /\ [](/\ supports_sample_rate(sample_rate_hz)
          /\ frame_samples * 1000 >= sample_rate_hz * FRAME_MS
          /\ (frame_samples - 1) * 1000 < sample_rate_hz * FRAME_MS)

\* a completed call at a rate set after construction, on an input whose
\* last frame is short
C33_Witness ==
    /\ Completed
    /\ sample_rate_hz = 8000
    /\ outcome.evaluated_frames >= 2
    /\ audio_len < outcome.evaluated_frames * frame_samples

====
